---- MODULE Spec2Model ----
(***************************************************************************)
(* Simulated execution venue (BrokerSimulado) of the trading bot, as       *)
(* written in src/execution/broker.py.                                     *)
(*                                                                         *)
(* Units.  The code works on Python floats; the model is exact fixed       *)
(* point, so rounding error of the float arithmetic is abstracted away:    *)
(*   price   : points, 1 = 0.00001          (1.10000 = 110000)             *)
(*   volume  : 1 = 0.001 lot                (0.01 lot = 10, 0.1 lot = 100) *)
(*   money   : 1 = 0.0001 USD               (10000 USD = 100000000)        *)
(* With these units  price * volume * 100000  is  points * volume * 10.    *)
(*                                                                         *)
(* Fields of a position that no operation reads or computes with (swap,    *)
(* comentario, magic, timestamps) are left out of the records.             *)
(*                                                                         *)
(* Tick simulator (TickSimulator) as written in src/data/tick_simulator.py.*)
(*   time    : milliseconds since the first candle of the data set         *)
(* The Gaussian noise of a candle's ticks is drawn from a few profiles     *)
(* (none, far above, far below, small and alternating); the random tick    *)
(* volume, which nothing reads, is left out of the tick records.           *)
(*                                                                         *)
(* Backtest driver (BacktestEngine) as written in                          *)
(* src/backtest/backtest_engine.py.  ejecutar is followed step by step:    *)
(* its start, one step per loop iteration, and the finalization.  The      *)
(* strategy and the risk gate are collaborators: what they answer on an    *)
(* analysis is an input of the step.                                       *)
(*   percentages : 1 = 0.01 %                                              *)
(* _calcular_metricas and _actualizar_precios_posiciones are also applied  *)
(* on their own, to ledgers, equity curves and ticks drawn from small sets.*)
(*                                                                         *)
(* Risk gate (RiskManager) as written in src/risk/risk_manager.py, used on *)
(* its own under validar_senal and preparar_orden calls.                   *)
(*   risk    : 1 = 0.001 % of the entry price                              *)
(*   date    : days since the gate was constructed                         *)
(***************************************************************************)
EXTENDS Integers, Sequences, FiniteSets, TLC

\* ------------------------------------------------------------- bounds
\* Number of calls in one behaviour that change the venue (orders placed,
\* tickets modified, positions closed, price refreshes).  Calls that fail
\* or change nothing are not counted.
MaxPasos == 4

\* Number of complete passes over the candle set after which reset() is no
\* longer taken.
MaxPasadas == 2

\* Number of times ejecutar() is started in one behaviour.
MaxCorridas == 2

\* Number of times cargar_datos() is called in one behaviour.
MaxCargas == 2

\* Longest ledger and longest equity curve handed to _calcular_metricas.
MaxOperaciones == 3

MaxPuntos == 3

\* Value of operaciones_hoy from which preparar_orden is no longer called,
\* and number of date changes in one behaviour.
MaxPreparaciones == 12

MaxDias == 1

\* ------------------------------------------------- program constants
None == -1
capital_inicial == 100000000
comision_por_lote == 25
spread == 20
PrecioDefecto == 110000
VolumenMinimo == 10
Ventana == 20
EscalaTicks == 10
TicksMinimos == 5
TicksMaximos == 100
SegundosRepartidos == 60000
spread_simulador == 20
RuidoGrande == 2000
RuidoLeve == 10
fecha_inicio == 0
fecha_fin == 900000
IntervaloAnalisis == 300000
CadenciaEquity == 100
DiasDeMercado == 252
TamanoContrato == 10
TicketBase == 1000
max_operaciones_diarias == 10
riesgo_maximo_diario == 10000
porcentaje_por_operacion == 2
MultiplicadorAtrPorDiez == 15
PuntosFijoStop == 200
PuntosFijoObjetivo == 400
ratio_riesgo_recompensa == 2
FuerzaMinima == 50
ConfirmacionesMinimas == 2

\* np.random.uniform(-0.0001, 0.0001): a price move of at most 10 points.
Cambios == {-10, 0, 10}

\* ------------------------------------------------------------ inputs
\* Arguments of the Orden constructor used by callers.
MkOrden(tipo, vol, precio, sl, tp, tipo_orden) ==
    [simbolo |-> "EURUSD", tipo |-> tipo, volumen |-> vol, precio |-> precio,
     stop_loss |-> sl, take_profit |-> tp, tipo_orden |-> tipo_orden]

OrdenesPosibles ==
    { MkOrden("COMPRA", 100, 110000, 109800, 110400, "market"),
      MkOrden("VENTA",  100, 110000, 110200, 109600, "market"),
      MkOrden("COMPRA", 10,  None,   None,   None,   "market"),
      MkOrden("VENTA",  100, 110200, None,   None,   "limit"),
      MkOrden("COMPRA", 1,   None,   None,   None,   "market") }

SinOrden == MkOrden("", None, None, None, None, "")

\* Dictionaries passed to modificar_orden, as sequences of <<key, value>>.
CambiosPosibles ==
    { << <<"stop_loss", 109900>>, <<"take_profit", 110500>> >>,
      << <<"precio_actual", 110500>> >>,
      << <<"precio", 110100>> >> }

\* Every ticket the venue can have issued so far, and one it never issues.
TicketsPosibles(hist) == (TicketBase - 1) .. (TicketBase + Len(hist))

\* ------------------------------------------------------------- state
VARIABLES
    posiciones,          \* BrokerSimulado.posiciones
    ordenes_pendientes,  \* BrokerSimulado.ordenes_pendientes
    historial,           \* BrokerSimulado.historial (trade ledger)
    balance,             \* BrokerSimulado.balance
    equity,              \* BrokerSimulado.equity
    np_importado,        \* whether the name np resolves in broker.py
    pasos,               \* venue-changing calls so far (bounded)
    colocadas,           \* history: one entry per successful colocar_orden
    resultado,           \* the last call and what it returned or raised
    simulador,           \* the TickSimulator object (its attributes)
    devuelto,            \* the simulator's last call and what it returned
    pasadas,             \* history: complete passes over the candle set
    primera_pasada,      \* history: ticks per candle of the first pass
    fase,                \* where the engine is: idle, in ejecutar, done
    datos_multi_tf,      \* BacktestEngine.datos_multi_tf
    tick_count,          \* local tick_count of ejecutar
    ultima_actualizacion_analisis,   \* local of ejecutar
    resultados,          \* BacktestEngine.resultados
    corridas,            \* times ejecutar was started (bounded)
    cargas,              \* times cargar_datos was called (bounded)
    salida,              \* the engine's last call and how it ended
    risk_manager,        \* a RiskManager object (its attributes)
    hoy,                 \* the date datetime.now().date() returns
    llamada,             \* the risk gate's last call and what it returned
    devueltas,           \* history: orders preparar_orden has returned
    preparadas           \* history: those returned right after validar_senal
                         \* had accepted the same signal

vars == <<posiciones, ordenes_pendientes, historial, balance, equity,
          np_importado, pasos, colocadas, resultado,
          simulador, devuelto, pasadas, primera_pasada,
          fase, datos_multi_tf, tick_count, ultima_actualizacion_analisis,
          resultados, corridas, cargas, salida,
          risk_manager, hoy, llamada, devueltas, preparadas>>

\* The tick simulator and the history kept about it.
ticks == <<simulador, devuelto, pasadas, primera_pasada>>

\* The backtest engine's own state.
motor == <<fase, datos_multi_tf, tick_count, ultima_actualizacion_analisis,
           resultados, corridas, cargas, salida>>

\* The risk gate and its calendar.
riesgo == <<risk_manager, hoy, llamada, devueltas, preparadas>>

\* What no operation of the venue writes.
entorno == <<np_importado, ticks, motor, riesgo>>

venue == <<posiciones, ordenes_pendientes, historial, balance, equity>>

\* ----------------------------------------------------------- helpers
RECURSIVE SumaBeneficio(_)
SumaBeneficio(s) ==
    IF s = <<>> THEN 0 ELSE s[1].beneficio + SumaBeneficio(Tail(s))

QuitarEn(s, i) == SubSeq(s, 1, i - 1) \o SubSeq(s, i + 1, Len(s))

IndiceDe_ultimo_si_falta(s, t) ==
    IF \E i \in 1..Len(s) : s[i].ticket = t
    THEN CHOOSE i \in 1..Len(s) :
            /\ s[i].ticket = t
            /\ \A j \in 1..(i - 1) : s[j].ticket # t
    ELSE Len(s)

\* Index of the first entry of s carrying ticket t, 0 when there is none
\* (the "for ... if posicion['ticket'] == ticket" search loops).
IndiceDe(s, t) ==
    IF \E i \in 1..Len(s) : s[i].ticket = t
    THEN CHOOSE i \in 1..Len(s) :
            /\ s[i].ticket = t
            /\ \A j \in 1..(i - 1) : s[j].ticket # t
    ELSE 0

Res(op, exito, ticket, precio, volumen, excepcion, orden) ==
    [op |-> op, exito |-> exito, ticket |-> ticket, precio |-> precio,
     volumen |-> volumen, excepcion |-> excepcion, orden |-> orden,
     cambios |-> <<>>]

\* ------------------------------------------------- Orden.__post_init__
PostInitFalla_solo_negativos(o) == o.volumen < 0

PostInitFalla(o) == o.volumen < VolumenMinimo

\* ------------------------------------------------------ colocar_orden
NuevoTicket(hist) == Len(hist) + TicketBase

Comision_sin_volumen(o) == comision_por_lote

Comision(o) == o.volumen * comision_por_lote

\* "orden.precio or 1.10000": None and 0 both give the default.
PrecioPedido(o) ==
    IF o.precio = None \/ o.precio = 0 THEN PrecioDefecto ELSE o.precio

PrecioEjecucion_sin_spread(o) == PrecioPedido(o)

PrecioEjecucion(o) ==
    IF o.tipo = "COMPRA"
    THEN PrecioPedido(o) + spread \div 2
    ELSE PrecioPedido(o) - spread \div 2

NuevaPosicion(o, ticket) ==
    [ticket |-> ticket, simbolo |-> o.simbolo, tipo |-> o.tipo,
     volumen |-> o.volumen,
     precio_apertura |-> PrecioEjecucion(o),
     precio_actual |-> PrecioEjecucion(o),
     stop_loss |-> o.stop_loss, take_profit |-> o.take_profit,
     comision |-> Comision(o), beneficio |-> 0, estado |-> "abierta"]

NuevaPendiente(o, ticket) ==
    [ticket |-> ticket, simbolo |-> o.simbolo, tipo |-> o.tipo,
     volumen |-> o.volumen, precio |-> o.precio,
     stop_loss |-> o.stop_loss, take_profit |-> o.take_profit,
     tipo_orden |-> o.tipo_orden, estado |-> "pendiente"]

BalanceTrasPendiente_cobrando(bal, o) == bal - Comision(o)

\* Balance after queuing a pending order: no commission is charged.
BalanceTrasPendiente(bal, o) == bal

EquityTrasPendiente_igualada(bal, eq) == bal

\* Equity after queuing a pending order: the branch does not write it.
EquityTrasPendiente(bal, eq) == eq

\* The caller builds the Orden; the constructor raises ValueError and
\* colocar_orden is never entered.
CrearOrden(o) ==
    /\ PostInitFalla(o)
    /\ resultado' = Res("Orden", FALSE, None, None, None, "ValueError", o)
    /\ UNCHANGED <<venue, entorno, pasos, colocadas>>

colocar_orden(o) ==
    /\ pasos < MaxPasos
    /\ ~PostInitFalla(o)
    /\ LET ticket == NuevoTicket(historial) IN
       IF o.tipo_orden = "market"
       THEN /\ posiciones' = Append(posiciones, NuevaPosicion(o, ticket))
            /\ balance' = balance - Comision(o)
            /\ equity' = balance'
            /\ colocadas' = Append(colocadas,
                    [ticket |-> ticket, tipo_orden |-> o.tipo_orden,
                     volumen |-> o.volumen])
            /\ resultado' = Res("colocar", TRUE, ticket, PrecioEjecucion(o),
                                o.volumen, "", o)
            /\ UNCHANGED <<ordenes_pendientes, historial>>
       ELSE /\ ordenes_pendientes' =
                    Append(ordenes_pendientes, NuevaPendiente(o, ticket))
            /\ balance' = BalanceTrasPendiente(balance, o)
            /\ colocadas' = Append(colocadas,
                    [ticket |-> ticket, tipo_orden |-> o.tipo_orden,
                     volumen |-> o.volumen])
            /\ resultado' = Res("colocar", TRUE, ticket, o.precio,
                                o.volumen, "", o)
            /\ equity' = EquityTrasPendiente(balance, equity)
            /\ UNCHANGED <<posiciones, historial>>
    /\ pasos' = pasos + 1
    /\ UNCHANGED entorno

\* ----------------------------------------------------- modificar_orden
RECURSIVE AplicarCambios(_, _)
AplicarCambios(r, cambios) ==
    IF cambios = <<>> THEN r
    ELSE LET k == cambios[1][1]
             v == cambios[1][2]
         IN AplicarCambios(IF k \in DOMAIN r THEN [r EXCEPT ![k] = v] ELSE r,
                           Tail(cambios))

modificar_orden(ticket, cambios) ==
    LET i == IndiceDe(posiciones, ticket)
        j == IndiceDe(ordenes_pendientes, ticket)
    IN
    /\ (i # 0 \/ j # 0) => pasos < MaxPasos
    /\ IF i # 0
       THEN /\ posiciones' =
                  [posiciones EXCEPT ![i] = AplicarCambios(@, cambios)]
            /\ resultado' = [Res("modificar", TRUE, ticket, None, None, "",
                                 SinOrden) EXCEPT !.cambios = cambios]
            /\ UNCHANGED ordenes_pendientes
       ELSE IF j # 0
       THEN /\ ordenes_pendientes' =
                  [ordenes_pendientes EXCEPT ![j] = AplicarCambios(@, cambios)]
            /\ resultado' = [Res("modificar", TRUE, ticket, None, None, "",
                                 SinOrden) EXCEPT !.cambios = cambios]
            /\ UNCHANGED posiciones
       ELSE /\ resultado' = Res("modificar", FALSE, None, None, None, "",
                                SinOrden)
            /\ UNCHANGED <<posiciones, ordenes_pendientes>>
    /\ pasos' = IF i # 0 \/ j # 0 THEN pasos + 1 ELSE pasos
    /\ UNCHANGED <<historial, balance, equity, entorno, colocadas>>

\* -------------------------------------------------------- cerrar_orden
PrecioCierre_mismo_lado(p) ==
    IF p.tipo = "COMPRA"
    THEN p.precio_actual + spread \div 2
    ELSE p.precio_actual - spread \div 2

PrecioCierre(p) ==
    IF p.tipo = "COMPRA"
    THEN p.precio_actual - spread \div 2
    ELSE p.precio_actual + spread \div 2

BeneficioBruto(p) ==
    IF p.tipo = "COMPRA"
    THEN (PrecioCierre(p) - p.precio_apertura) * p.volumen * TamanoContrato
    ELSE (p.precio_apertura - PrecioCierre(p)) * p.volumen * TamanoContrato

BeneficioNeto(p) == BeneficioBruto(p) - p.comision

Operacion(p) ==
    [ticket |-> p.ticket, simbolo |-> p.simbolo, tipo |-> p.tipo,
     volumen |-> p.volumen, precio_apertura |-> p.precio_apertura,
     precio_actual |-> p.precio_actual,
     stop_loss |-> p.stop_loss, take_profit |-> p.take_profit,
     comision |-> p.comision, beneficio |-> BeneficioNeto(p),
     precio_cierre |-> PrecioCierre(p), estado |-> "cerrada"]

EquityTrasCierre_sin_actualizar(bal, eq) == eq

\* Equity stored by cerrar_orden: "self.equity = self.balance".
EquityTrasCierre(bal, eq) == bal

PosicionesTrasCierre_por_ticket(pos, i) ==
    SelectSeq(pos, LAMBDA q : q.ticket # pos[i].ticket)

\* Open positions after closing the one at index i: "self.posiciones.pop(i)".
PosicionesTrasCierre(pos, i) == QuitarEn(pos, i)

HistorialTrasCierre_reemplaza(hist, op) == <<op>>

\* The ledger after a close: "self.historial.append(operacion)".
HistorialTrasCierre(hist, op) == Append(hist, op)

\* The venue state b (a record of the venue's attributes) after
\* cerrar_orden(ticket); unchanged when the ticket is not an open position.
CerrarEn(b, ticket) ==
    LET i == IndiceDe(b.posiciones, ticket) IN
    IF i = 0 THEN b
    ELSE LET p == b.posiciones[i]
             bal == b.balance + BeneficioNeto(p)
         IN [b EXCEPT
                !.posiciones = PosicionesTrasCierre(b.posiciones, i),
                !.historial = HistorialTrasCierre(b.historial, Operacion(p)),
                !.balance = bal,
                !.equity = EquityTrasCierre(bal, b.equity)]

Venue == [posiciones |-> posiciones, historial |-> historial,
          balance |-> balance, equity |-> equity,
          ordenes_pendientes |-> ordenes_pendientes,
          colocadas |-> colocadas]

PendientesTrasCierre_quitando(pend, ticket) ==
    LET j == IndiceDe(pend, ticket)
    IN IF j = 0 THEN pend ELSE QuitarEn(pend, j)

\* The pending queue after cerrar_orden: the loop looks only at the open
\* positions, so the queue is what it was.
PendientesTrasCierre(pend, ticket) == pend

cerrar_orden(ticket) ==
    LET i == IndiceDe(posiciones, ticket)
        b == CerrarEn(Venue, ticket)
    IN
    /\ i # 0 => pasos < MaxPasos
    /\ posiciones' = b.posiciones
    /\ historial' = b.historial
    /\ balance' = b.balance
    /\ equity' = b.equity
    /\ resultado' =
          IF i # 0
          THEN Res("cerrar", TRUE, ticket, PrecioCierre(posiciones[i]),
                   posiciones[i].volumen, "", SinOrden)
          ELSE Res("cerrar", FALSE, None, None, None, "", SinOrden)
    /\ pasos' = IF i # 0 THEN pasos + 1 ELSE pasos
    /\ ordenes_pendientes' = PendientesTrasCierre(ordenes_pendientes, ticket)
    /\ UNCHANGED <<entorno, colocadas>>

\* -------------------------------------------------------------- cerrar
CerrarTodas_solo_primera(b, copia) ==
    IF copia = <<>> THEN b ELSE CerrarEn(b, copia[1].ticket)

\* "for posicion in self.posiciones.copy(): self.cerrar_orden(ticket)".
RECURSIVE CerrarTodas(_, _)
CerrarTodas(b, copia) ==
    IF copia = <<>> THEN b
    ELSE CerrarTodas(CerrarEn(b, copia[1].ticket), Tail(copia))

cerrar ==
    LET b == CerrarTodas(Venue, posiciones) IN
    /\ posiciones # <<>> => pasos < MaxPasos
    /\ posiciones' = b.posiciones
    /\ historial' = b.historial
    /\ balance' = b.balance
    /\ equity' = b.equity
    /\ resultado' = Res("cerrar_todo", TRUE, None, None, None, "", SinOrden)
    /\ pasos' = IF posiciones # <<>> THEN pasos + 1 ELSE pasos
    /\ UNCHANGED <<ordenes_pendientes, entorno, colocadas>>

\* ------------------------------------------ obtener_posiciones_abiertas
BeneficioActual(p) ==
    (IF p.tipo = "COMPRA"
     THEN (p.precio_actual - p.precio_apertura) * p.volumen * TamanoContrato
     ELSE (p.precio_apertura - p.precio_actual) * p.volumen * TamanoContrato)
    - p.comision

Refrescar(p, cambio) ==
    LET q == [p EXCEPT !.precio_actual = @ + cambio]
    IN [q EXCEPT !.beneficio = BeneficioActual(q)]

\* The getter refreshes prices, floating P&L and equity.  Its loop body
\* starts with np.random.uniform, and broker.py has no "import numpy as
\* np": with an open position the call raises NameError before it changes
\* anything, unless the name has been bound in the module from outside.
obtener_posiciones_abiertas ==
    \/ /\ posiciones # <<>>
       /\ ~np_importado
       /\ resultado' = Res("posiciones", FALSE, None, None, None,
                           "NameError", SinOrden)
       /\ UNCHANGED <<venue, entorno, pasos, colocadas>>
    \/ /\ posiciones = <<>> \/ np_importado
       /\ posiciones # <<>> => pasos < MaxPasos
       /\ \E c \in [1..Len(posiciones) -> Cambios] :
             posiciones' =
                 [i \in 1..Len(posiciones) |-> Refrescar(posiciones[i], c[i])]
       /\ equity' = balance + SumaBeneficio(posiciones')
       /\ pasos' = IF posiciones # <<>> THEN pasos + 1 ELSE pasos
       /\ resultado' = Res("posiciones", TRUE, None, None, None, "", SinOrden)
       /\ UNCHANGED <<ordenes_pendientes, historial, balance, entorno,
                      colocadas>>

\* ------------------------------------------------ read-only operations
obtener_estado_cuenta ==
    /\ resultado' = Res("estado_cuenta", TRUE, None, None, None, "", SinOrden)
    /\ UNCHANGED <<venue, entorno, pasos, colocadas>>

\* ===================================================== tick simulator
\* One candle row of the DataFrame handed to TickSimulator.
Vela(timestamp, apertura, alto, bajo, cierre) ==
    [timestamp |-> timestamp, apertura |-> apertura, alto |-> alto,
     bajo |-> bajo, cierre |-> cierre]

\* Candle sets handed to the simulator: none, one narrow candle, two
\* one-minute candles, two candles half a minute apart whose open lies
\* outside the high-low range (as the demo data generator produces them),
\* three five-minute candles, and one very wide candle.
VelasPosibles ==
    { <<>>,
      << Vela(0, 110000, 110030, 109990, 110010) >>,
      << Vela(0, 110000, 110050, 109980, 110040),
         Vela(60000, 110040, 110090, 110020, 110060) >>,
      << Vela(0, 110060, 110050, 109990, 110000),
         Vela(30000, 110000, 110040, 109980, 110020) >>,
      << Vela(0, 110000, 110020, 109990, 110010),
         Vela(300000, 110010, 110060, 110000, 110050),
         Vela(600000, 110050, 110150, 110040, 110100) >>,
      << Vela(0, 110000, 111500, 110000, 111000) >> }

\* The shapes the noise vector "np.random.normal(0, volatilidad * 0.1, n)"
\* takes in the model.
Perfiles == {"cero", "sube", "baja", "alterna"}

\* Element i (from 0) of the noise vector of a profile.
Ruido(perfil, i) ==
    CASE perfil = "cero" -> 0
      [] perfil = "sube" -> RuidoGrande
      [] perfil = "baja" -> 0 - RuidoGrande
      [] OTHER -> IF i % 2 = 0 THEN RuidoLeve ELSE 0 - RuidoLeve

Min(a, b) == IF a < b THEN a ELSE b

Max(a, b) == IF a > b THEN a ELSE b

\* np.clip(x, lo, hi) = minimum(maximum(x, lo), hi).
Clip(x, lo, hi) == Min(Max(x, lo), hi)

\* Column 'rango' = alto - bajo.
Rango(v) == v.alto - v.bajo

RECURSIVE SumaRangos(_, _, _)
SumaRangos(velas, a, b) ==
    IF a > b THEN 0 ELSE Rango(velas[a]) + SumaRangos(velas, a + 1, b)

\* Column 'volatilidad' of row k (from 1): the mean range of the last
\* Ventana rows, or of all rows where fewer than Ventana rows precede.
Volatilidad(velas, k) ==
    IF k >= Ventana
    THEN SumaRangos(velas, k - Ventana + 1, k) \div Ventana
    ELSE SumaRangos(velas, 1, Len(velas)) \div Len(velas)

TicksPorVela_sin_minimo(velas, k) ==
    Min(Volatilidad(velas, k) \div EscalaTicks, TicksMaximos)

\* Column 'ticks_por_vela' of row k (from 1).
TicksPorVela(velas, k) ==
    Clip(Volatilidad(velas, k) \div EscalaTicks, TicksMinimos, TicksMaximos)

\* Element i (from 0) of np.linspace(apertura, cierre, n).
PrecioBase(v, n, i) ==
    IF n = 1 THEN v.apertura
    ELSE v.apertura + (i * (v.cierre - v.apertura)) \div (n - 1)

PrecioConRuido_sin_recorte(v, precio, ruido) == precio + ruido

\* The interpolated price plus its noise, clipped into the candle's range.
PrecioConRuido(v, precio, ruido) == Clip(precio + ruido, v.bajo, v.alto)

\* Offset of tick i (from 0) of n from the candle's timestamp.
TiempoOffset(i, n) == (i * SegundosRepartidos) \div n

\* One tick; vela records the row it was generated from (not in the code).
Tick(timestamp, bid, vela) ==
    [timestamp |-> timestamp, bid |-> bid, ask |-> bid + spread_simulador,
     last |-> bid + spread_simulador \div 2, spread |-> spread_simulador,
     vela |-> vela]

SinTick == Tick(None, None, 0)

\* The list of ticks of row vela_idx (from 0).
generar_ticks_para_vela(velas, vela_idx, perfil) ==
    IF vela_idx >= Len(velas) THEN <<>>
    ELSE LET v == velas[vela_idx + 1]
             n == TicksPorVela(velas, vela_idx + 1)
         IN [i \in 1..n |->
                Tick(v.timestamp + TiempoOffset(i - 1, n),
                     PrecioConRuido(v, PrecioBase(v, n, i - 1),
                                    Ruido(perfil, i - 1)),
                     vela_idx + 1)]

\* The simulator after __init__ over a candle set.
TickSimulator(velas) ==
    [datos_velas |-> velas, indice_actual |-> 0, ticks_actuales |-> <<>>,
     tick_idx |-> 0, ticks_generados |-> <<>>, construido |-> TRUE]

\* "self.simulador = None": no simulator has been constructed.
SinSimulador == [TickSimulator(<<>>) EXCEPT !.construido = FALSE]

\* What a call of the simulator is recorded as.
Devuelve(op, nulo, tick) == [op |-> op, nulo |-> nulo, tick |-> tick]

\* obtener_siguiente_tick on simulator s: the simulator afterwards and the
\* value returned (nulo: None was returned).
RECURSIVE SiguienteTick(_, _)
SiguienteTick(s, perfil) ==
    IF s.indice_actual >= Len(s.datos_velas)
    THEN [sim |-> s, nulo |-> TRUE, tick |-> SinTick]
    ELSE LET g == IF s.ticks_actuales = <<>>
                  THEN [s EXCEPT !.ticks_actuales =
                                     generar_ticks_para_vela(
                                         s.datos_velas, s.indice_actual,
                                         perfil),
                                 !.tick_idx = 0]
                  ELSE s
         IN IF g.tick_idx < Len(g.ticks_actuales)
            THEN LET tick == g.ticks_actuales[g.tick_idx + 1]
                 IN [sim |-> [g EXCEPT !.tick_idx = @ + 1,
                                       !.ticks_generados = Append(@, tick)],
                     nulo |-> FALSE, tick |-> tick]
            ELSE SiguienteTick([g EXCEPT !.indice_actual = @ + 1,
                                         !.ticks_actuales = <<>>], perfil)

\* Ticks of row k (from 1) returned since construction or the last reset.
Entregados(s, k) ==
    Cardinality({i \in 1..Len(s.ticks_generados) :
                    s.ticks_generados[i].vela = k})

TicksEntregados(s) == [k \in 1..Len(s.datos_velas) |-> Entregados(s, k)]

\* A pass over the candle set ends with the first None of a run of Nones.
TerminaPasada(r) == r.nulo /\ ~(devuelto.op = "tick" /\ devuelto.nulo)

obtener_siguiente_tick ==
    \E perfil \in Perfiles :
        LET r == SiguienteTick(simulador, perfil)
        IN /\ simulador' = r.sim
           /\ devuelto' = Devuelve("tick", r.nulo, r.tick)
           /\ pasadas' = IF TerminaPasada(r) THEN pasadas + 1 ELSE pasadas
           /\ primera_pasada' = IF TerminaPasada(r) /\ pasadas = 0
                                THEN TicksEntregados(simulador)
                                ELSE primera_pasada
           /\ UNCHANGED <<riesgo, venue, np_importado, pasos, colocadas, resultado,
                          motor>>

IndiceTrasReset_conserva(indice) == indice

\* reset() rewinds to the first row.
IndiceTrasReset(indice) == 0

SimuladorTrasReset(s) ==
    [s EXCEPT !.indice_actual = IndiceTrasReset(@),
              !.ticks_actuales = <<>>,
              !.tick_idx = 0,
              !.ticks_generados = <<>>]

reset ==
    /\ pasadas < MaxPasadas
    /\ simulador' = SimuladorTrasReset(simulador)
    /\ devuelto' = Devuelve("reset", FALSE, SinTick)
    /\ UNCHANGED <<riesgo, venue, np_importado, pasos, colocadas, resultado,
                   pasadas, primera_pasada, motor>>

\* ==================================================== backtest engine
\* config['timeframes']['entrada'].
tf_entrada == "M5"

\* What dict.get returns for a key the dict does not have.
Ninguno == "None"

\* Candle maps handed to cargar_datos: without the entry timeframe, with an
\* empty entry series, with an entry series that lies before the date
\* range, with one candle in range, and with two candles in range among
\* candles outside it.
DatosPosibles ==
    { [H1 |-> << Vela(0, 110000, 110030, 109990, 110010) >>],
      [M5 |-> <<>>],
      [M5 |-> << Vela(0 - 300000, 110000, 110030, 109990, 110010) >>,
       H1 |-> << Vela(0, 110000, 110030, 109990, 110010) >>],
      [M5 |-> << Vela(0, 110000, 110030, 109990, 110010) >>],
      [M5 |-> << Vela(0 - 300000, 110000, 110030, 109990, 110010),
                 Vela(0, 110000, 110040, 109990, 110030),
                 Vela(300000, 110030, 110050, 110000, 110010),
                 Vela(1200000, 110010, 110050, 110000, 110020) >>,
       H1 |-> << Vela(0, 110000, 110050, 109990, 110010) >>] }

\* The candle map for long runs: one wide candle gives a hundred ticks.
DatosLargos ==
    { [M5 |-> << Vela(0, 110000, 111000, 109500, 110500) >>] }

\* What the strategy and the risk gate answer for one signal: validar_senal
\* accepts it or not, preparar_orden returns an order or raises.
Senal(valida, falla, orden) ==
    [valida |-> valida, falla |-> falla, orden |-> orden]

SenalesPosibles ==
    { <<>>,
      << Senal(FALSE, FALSE, SinOrden) >>,
      << Senal(TRUE, FALSE,
               MkOrden("COMPRA", 100, 110000, 109985, 110030, "market")) >>,
      << Senal(TRUE, FALSE,
               MkOrden("VENTA", 100, 110000, 110200, 109600, "market")) >>,
      << Senal(TRUE, FALSE,
               MkOrden("COMPRA", 100, 110000, 109800, 110400, "market")),
         Senal(TRUE, TRUE, SinOrden) >> }

\* The noise profiles a run is followed with.
PerfilesCorrida == {"cero", "alterna"}

\* The price changes the venue's getter draws during a run: every refresh
\* moves a position's price up by one pip, so BUY positions gain and SELL
\* positions lose.
CambiosCorrida == {10}

\* The mask "fecha_inicio <= timestamp <= fecha_fin".
EnFechas(v) == v.timestamp >= fecha_inicio /\ v.timestamp <= fecha_fin

Filtrar(df) == SelectSeq(df, EnFechas)

SinDatos_nunca(df) == FALSE

\* "if len(df_filtrado) == 0: raise ValueError".
SinDatos(df) == Len(df) = 0

\* How a call of the engine ended; cerradas: positions closed by the
\* finalization.
Sal(op, excepcion, cerradas) ==
    [op |-> op, excepcion |-> excepcion, cerradas |-> cerradas]

\* How a call of cargar_datos ended, and the candle map it was given.
Carga(excepcion, datos_velas) ==
    [op |-> "cargar_datos", excepcion |-> excepcion, cerradas |-> 0,
     datos |-> datos_velas]

ResultadosIniciales ==
    [operaciones |-> <<>>, metricas |-> <<>>, equity_curve |-> <<>>,
     drawdowns |-> <<>>]

cargar_datos(datos_velas) ==
    /\ fase # "corriendo"
    /\ cargas < MaxCargas
    /\ cargas' = cargas + 1
    /\ IF tf_entrada \notin DOMAIN datos_velas
       THEN /\ salida' = Carga("ValueError", datos_velas)
            /\ UNCHANGED <<ticks, datos_multi_tf>>
       ELSE LET df_filtrado == Filtrar(datos_velas[tf_entrada]) IN
            IF SinDatos(df_filtrado)
            THEN /\ salida' = Carga("ValueError", datos_velas)
                 /\ UNCHANGED <<ticks, datos_multi_tf>>
            ELSE /\ simulador' = TickSimulator(df_filtrado)
                 /\ devuelto' = Devuelve("init", FALSE, SinTick)
                 /\ pasadas' = 0
                 /\ primera_pasada' = <<>>
                 /\ datos_multi_tf' = [tf \in DOMAIN datos_velas |->
                                          Filtrar(datos_velas[tf])]
                 /\ salida' = Carga("", datos_velas)
    /\ UNCHANGED <<riesgo, venue, np_importado, pasos, colocadas, resultado, fase,
                   tick_count, ultima_actualizacion_analisis, resultados,
                   corridas>>

\* The start of ejecutar up to its loop.  Without a simulator
\* "self.simulador.reset()" raises AttributeError and the call ends.
ejecutar_inicio ==
    /\ fase # "corriendo"
    /\ corridas < MaxCorridas
    /\ corridas' = corridas + 1
    /\ IF ~simulador.construido
       THEN /\ fase' = "error"
            /\ salida' = Sal("ejecutar", "AttributeError", 0)
            /\ UNCHANGED <<ticks, tick_count, ultima_actualizacion_analisis>>
       ELSE /\ simulador' = SimuladorTrasReset(simulador)
            /\ devuelto' = Devuelve("reset", FALSE, SinTick)
            /\ tick_count' = 0
            /\ ultima_actualizacion_analisis' = None
            /\ fase' = "corriendo"
            /\ salida' = Sal("ejecutar", "", 0)
            /\ UNCHANGED <<pasadas, primera_pasada>>
    /\ UNCHANGED <<riesgo, venue, np_importado, pasos, colocadas, resultado,
                   datos_multi_tf, resultados, cargas>>

\* tick.get(k).
TickGet(tick, k) == IF k \in DOMAIN tick THEN tick[k] ELSE Ninguno

\* The venue after obtener_posiciones_abiertas with price changes c.
RefrescarTodas(b, c) ==
    LET pos == [i \in 1..Len(b.posiciones) |->
                   Refrescar(b.posiciones[i], c[i])]
    IN [b EXCEPT !.posiciones = pos,
                 !.equity = b.balance + SumaBeneficio(pos)]

\* _verificar_sl_tp for position p at the tick.
VerificarSlTp(b, p, tick) ==
    IF p.stop_loss = None \/ p.take_profit = None THEN b
    ELSE IF p.tipo = "COMPRA"
         THEN IF tick.last <= p.stop_loss THEN CerrarEn(b, p.ticket)
              ELSE IF tick.last >= p.take_profit THEN CerrarEn(b, p.ticket)
              ELSE b
         ELSE IF tick.last >= p.stop_loss THEN CerrarEn(b, p.ticket)
              ELSE IF tick.last <= p.take_profit THEN CerrarEn(b, p.ticket)
              ELSE b

\* The place in s of the dict p (0: no longer in the list).
IndiceDelDict(s, p) ==
    IF \E i \in 1..Len(s) : s[i] = p
    THEN CHOOSE i \in 1..Len(s) :
            s[i] = p /\ \A j \in 1..(i - 1) : s[j] # p
    ELSE 0

\* The loop of _actualizar_precios_posiciones over the list the getter
\* returned (a copy of the list, holding the same dicts).
RECURSIVE ActualizarPrecios(_, _, _)
ActualizarPrecios(b, copia, tick) ==
    IF copia = <<>> THEN b
    ELSE LET p == copia[1] IN
         IF p.simbolo = TickGet(tick, "simbolo")
         THEN LET i == IndiceDelDict(b.posiciones, p)
                  q == [p EXCEPT !.precio_actual = tick.last]
                  b1 == IF i = 0 THEN b
                        ELSE [b EXCEPT !.posiciones[i] = q]
              IN ActualizarPrecios(VerificarSlTp(b1, q, tick),
                                   Tail(copia), tick)
         ELSE ActualizarPrecios(b, Tail(copia), tick)

\* The venue after colocar_orden(o).
ColocarEn(b, o) ==
    LET ticket == NuevoTicket(b.historial)
        hecha == [ticket |-> ticket, tipo_orden |-> o.tipo_orden,
                  volumen |-> o.volumen]
    IN IF o.tipo_orden = "market"
       THEN [b EXCEPT !.posiciones = Append(@, NuevaPosicion(o, ticket)),
                      !.balance = @ - Comision(o),
                      !.equity = b.balance - Comision(o),
                      !.colocadas = Append(@, hecha)]
       ELSE [b EXCEPT !.ordenes_pendientes =
                          Append(@, NuevaPendiente(o, ticket)),
                      !.balance = BalanceTrasPendiente(@, o),
                      !.equity = EquityTrasPendiente(b.balance, @),
                      !.colocadas = Append(@, hecha)]

\* "for senal in senales": e.b is the venue, e.error the exception that
\* ended the loop ("" while none).  preparar_orden raises ErrorRiesgo, also
\* when the Orden constructor refuses the volume, and the loop has no
\* handler.
RECURSIVE ProcesarSenales(_, _)
ProcesarSenales(e, senales) ==
    IF senales = <<>> THEN e
    ELSE LET senal == senales[1] IN
         IF ~senal.valida THEN ProcesarSenales(e, Tail(senales))
         ELSE IF senal.falla \/ PostInitFalla(senal.orden)
              THEN [e EXCEPT !.error = "ErrorRiesgo"]
              ELSE ProcesarSenales(
                       [e EXCEPT !.b = ColocarEn(@, senal.orden)],
                       Tail(senales))

\* _obtener_datos_actualizados(timestamp) is not empty.
HayDatosActualizados(timestamp) ==
    \E tf \in DOMAIN datos_multi_tf :
        \E i \in 1..Len(datos_multi_tf[tf]) :
            datos_multi_tf[tf][i].timestamp <= timestamp

TocaAnalisis_desde_cinco(tick) ==
    \/ ultima_actualizacion_analisis = None
    \/ tick.timestamp - ultima_actualizacion_analisis >= IntervaloAnalisis

\* The throttle of the analysis.
TocaAnalisis(tick) ==
    \/ ultima_actualizacion_analisis = None
    \/ tick.timestamp - ultima_actualizacion_analisis > IntervaloAnalisis

TocaPuntoEquity_al_empezar(n) == n % CadenciaEquity = 1

\* "if tick_count % 100 == 0".
TocaPuntoEquity(n) == n % CadenciaEquity = 0

\* _registrar_punto_equity.
PuntoEquity(b, timestamp) ==
    [timestamp |-> timestamp, equity |-> b.equity, balance |-> b.balance]

PonerVenue(b) ==
    /\ posiciones' = b.posiciones
    /\ ordenes_pendientes' = b.ordenes_pendientes
    /\ historial' = b.historial
    /\ balance' = b.balance
    /\ equity' = b.equity
    /\ colocadas' = b.colocadas

\* One iteration of the loop of ejecutar whose tick is not None.
ejecutar_tick ==
    /\ fase = "corriendo"
    /\ \E perfil \in PerfilesCorrida :
       LET r == SiguienteTick(simulador, perfil)
           tick == r.tick
       IN
       /\ ~r.nulo
       /\ simulador' = r.sim
       /\ devuelto' = Devuelve("tick", FALSE, tick)
       /\ tick_count' = tick_count + 1
       /\ \/ \* the getter raises NameError
             /\ posiciones # <<>> /\ ~np_importado
             /\ fase' = "error"
             /\ salida' = Sal("ejecutar", "NameError", 0)
             /\ UNCHANGED <<venue, colocadas, resultados,
                            ultima_actualizacion_analisis>>
          \/ /\ posiciones = <<>> \/ np_importado
             /\ \E c \in [1..Len(posiciones) -> CambiosCorrida],
                   senales \in IF TocaAnalisis(tick)
                                  /\ HayDatosActualizados(tick.timestamp)
                               THEN SenalesPosibles ELSE {<<>>} :
                LET b1 == RefrescarTodas(Venue, c)
                    b2 == ActualizarPrecios(b1, b1.posiciones, tick)
                    analiza == TocaAnalisis(tick)
                               /\ HayDatosActualizados(tick.timestamp)
                    e == IF analiza
                         THEN ProcesarSenales([b |-> b2, error |-> ""],
                                              senales)
                         ELSE [b |-> b2, error |-> ""]
                IN /\ PonerVenue(e.b)
                   /\ IF e.error # ""
                      THEN /\ fase' = "error"
                           /\ salida' = Sal("ejecutar", e.error, 0)
                           /\ UNCHANGED <<resultados,
                                          ultima_actualizacion_analisis>>
                      ELSE /\ ultima_actualizacion_analisis' =
                                 IF analiza THEN tick.timestamp
                                 ELSE ultima_actualizacion_analisis
                           /\ resultados' =
                                 IF TocaPuntoEquity(tick_count + 1)
                                 THEN [resultados EXCEPT !.equity_curve =
                                          Append(@, PuntoEquity(
                                                        e.b, tick.timestamp))]
                                 ELSE resultados
                           /\ UNCHANGED <<fase, salida>>
    /\ UNCHANGED <<riesgo, np_importado, pasos, resultado, pasadas, primera_pasada,
                   datos_multi_tf, corridas, cargas>>

\* A tick as MarketData.obtener_tick builds it, with the key 'simbolo'.
TickDeMercado(bid, ask, last) ==
    [simbolo |-> "EURUSD", timestamp |-> 0, bid |-> bid, ask |-> ask,
     last |-> last, spread |-> ask - bid]

\* Ticks handed to the tick handler: below the BUY stop, between the
\* levels, above the SELL stop, and a simulator tick (no 'simbolo').
TicksPosibles ==
    { TickDeMercado(109690, 109710, 109700),
      TickDeMercado(109990, 110010, 110000),
      TickDeMercado(110290, 110310, 110300),
      Tick(0, 110290, 1) }

\* Market orders that carry both levels.
OrdenesConNiveles ==
    { MkOrden("COMPRA", 100, 110000, 109800, 110400, "market"),
      MkOrden("VENTA",  100, 110000, 110200, 109600, "market") }

\* How a call of _actualizar_precios_posiciones ended, and its tick.
Actualizado(excepcion, cerradas, tick) ==
    [op |-> "_actualizar_precios_posiciones", excepcion |-> excepcion,
     cerradas |-> cerradas, tick |-> tick]

\* _actualizar_precios_posiciones(tick): the venue's getter, then the loop
\* over the positions it returned.
actualizar_precios_posiciones(tick) ==
    /\ pasos < MaxPasos
    /\ pasos' = pasos + 1
    /\ \/ /\ posiciones # <<>> /\ ~np_importado
          /\ salida' = Actualizado("NameError", 0, tick)
          /\ UNCHANGED <<venue, colocadas>>
       \/ /\ posiciones = <<>> \/ np_importado
          /\ \E c \in [1..Len(posiciones) -> CambiosCorrida] :
                LET b1 == RefrescarTodas(Venue, c)
                    b2 == ActualizarPrecios(b1, b1.posiciones, tick)
                IN /\ PonerVenue(b2)
                   /\ salida' = Actualizado(
                          "", Len(b2.historial) - Len(historial), tick)
    /\ UNCHANGED <<riesgo, np_importado, resultado, ticks, fase, datos_multi_tf,
                   tick_count, ultima_actualizacion_analisis, resultados,
                   corridas, cargas>>

\* ------------------------------------------------------------ metrics
Ganadoras(ops) == SelectSeq(ops, LAMBDA op : op.beneficio > 0)

Perdedoras(ops) == SelectSeq(ops, LAMBDA op : op.beneficio < 0)

Abs(x) == IF x < 0 THEN 0 - x ELSE x

MaximoHasta_primero(curva, i) == curva[1].equity

\* expanding().max() of the equity at point i.
RECURSIVE MaximoHasta(_, _)
MaximoHasta(curva, i) ==
    IF i = 1 THEN curva[1].equity
    ELSE Max(MaximoHasta(curva, i - 1), curva[i].equity)

\* (equity - rolling_max) / rolling_max * 100 at each point.
Drawdowns(curva) ==
    [i \in 1..Len(curva) |->
        0 - ((MaximoHasta(curva, i) - curva[i].equity)
                \div (MaximoHasta(curva, i) \div 10000))]

RECURSIVE Minimo(_)
Minimo(s) == IF Len(s) = 1 THEN s[1] ELSE Min(s[1], Minimo(Tail(s)))

DrawdownMaximo(curva) ==
    IF Len(curva) > 0 THEN Abs(Minimo(Drawdowns(curva))) ELSE 0

\* pct_change of the equity between consecutive points, in 1e-8.
Retorno(a, b) == ((b - a) * 100) \div (a \div 1000000)

\* The float (mean / std) * sqrt(252) of the returns is not computed.
SharpeCalculado == "returns.mean() / returns.std() * sqrt(252)"

\* returns.std() > 0: at least two returns, not all the same.
DesviacionPositiva(curva) ==
    /\ Len(curva) > 2
    /\ \E i \in 2..(Len(curva) - 1) :
          Retorno(curva[i - 1].equity, curva[i].equity)
             # Retorno(curva[i].equity, curva[i + 1].equity)

SharpeRatio(curva) ==
    IF Len(curva) > 1 /\ DesviacionPositiva(curva) THEN SharpeCalculado
    ELSE 0

Expectancy_por_perdedoras(ops) ==
    LET g == Ganadoras(ops)
        p == Perdedoras(ops)
    IN IF g # <<>> /\ p # <<>>
       THEN LET avg_ganancia == SumaBeneficio(g) \div Len(g)
                avg_perdida == Abs(SumaBeneficio(p) \div Len(p))
            IN (Len(g) * avg_ganancia - Len(p) * avg_perdida) \div Len(ops)
       ELSE 0

Expectancy(ops) ==
    LET g == Ganadoras(ops)
        p == Perdedoras(ops)
    IN IF g # <<>> /\ p # <<>>
       THEN LET avg_ganancia == SumaBeneficio(g) \div Len(g)
                avg_perdida == Abs(SumaBeneficio(p) \div Len(p))
            IN (Len(g) * avg_ganancia - (Len(ops) - Len(g)) * avg_perdida)
                   \div Len(ops)
       ELSE 0

RetornoTotal(ops) == SumaBeneficio(ops) \div (capital_inicial \div 10000)

\* resultados['metricas'] as _calcular_metricas leaves it.
CalcularMetricas(ops, curva) ==
    IF ops = <<>>
    THEN [total_operaciones |-> 0, operaciones_ganadoras |-> 0,
          operaciones_perdedoras |-> 0, win_rate |-> 0,
          beneficio_total |-> 0, drawdown_maximo |-> 0,
          sharpe_ratio |-> 0, expectancy |-> 0]
    ELSE [total_operaciones |-> Len(ops),
          operaciones_ganadoras |-> Len(Ganadoras(ops)),
          operaciones_perdedoras |-> Len(Perdedoras(ops)),
          win_rate |-> (Len(Ganadoras(ops)) * 10000) \div Len(ops),
          beneficio_total |-> SumaBeneficio(ops),
          drawdown_maximo |-> DrawdownMaximo(curva),
          sharpe_ratio |-> SharpeRatio(curva),
          expectancy |-> Expectancy(ops),
          retorno_total |-> RetornoTotal(ops),
          retorno_anualizado |->
              (RetornoTotal(ops) * DiasDeMercado) \div Len(ops)]

\* Realized results of ledger entries handed to _calcular_metricas:
\* +20, +10, 0 and -5 USD.
BeneficiosPosibles == {200000, 100000, 0, 0 - 50000}

\* A ledger entry with the given result.
OperacionCon(beneficio) ==
    [ticket |-> TicketBase, simbolo |-> "EURUSD", beneficio |-> beneficio,
     estado |-> "cerrada"]

LibrosPosibles ==
    UNION { [1..n -> {OperacionCon(x) : x \in BeneficiosPosibles}] :
              n \in 0..MaxOperaciones }

\* Equity values of curve points: the initial capital, 1 % below, 1 % above.
EquitiesPosibles == {capital_inicial - 1000000, capital_inicial,
                     capital_inicial + 1000000}

CurvasPosibles ==
    UNION { [1..n -> {PuntoEquity([equity |-> x, balance |-> capital_inicial],
                                  0) : x \in EquitiesPosibles}] :
              n \in 0..MaxPuntos }

\* Equity leaves the initial capital only through a position, and every
\* position is in the ledger once _finalizar_backtest has closed them all:
\* with an empty ledger the curve is flat.
CurvaDeLibro(ops, curva) ==
    ops = <<>> => \A i \in 1..Len(curva) : curva[i].equity = capital_inicial

\* _calcular_metricas on the results the engine holds.
calcular_metricas ==
    /\ salida.op # "_calcular_metricas"
    /\ resultados' =
          [resultados EXCEPT
              !.metricas = CalcularMetricas(resultados.operaciones,
                                            resultados.equity_curve),
              !.drawdowns = IF resultados.operaciones = <<>> THEN @
                            ELSE Drawdowns(resultados.equity_curve)]
    /\ salida' = Sal("_calcular_metricas", "", 0)
    /\ UNCHANGED <<riesgo, venue, np_importado, pasos, colocadas, resultado, ticks,
                   fase, datos_multi_tf, tick_count,
                   ultima_actualizacion_analisis, corridas, cargas>>

\* The iteration of the loop whose tick is None, _finalizar_backtest and
\* the return of ejecutar.  The reporter is a collaborator that only reads
\* the results.
ejecutar_fin ==
    /\ fase = "corriendo"
    /\ \E perfil \in PerfilesCorrida : SiguienteTick(simulador, perfil).nulo
    /\ LET b == CerrarTodas(Venue, posiciones)
           metricas == CalcularMetricas(b.historial, resultados.equity_curve)
       IN /\ PonerVenue(b)
          /\ resultados' =
                [resultados EXCEPT
                    !.operaciones = b.historial,
                    !.metricas = metricas,
                    !.drawdowns = IF b.historial = <<>> THEN @
                                  ELSE Drawdowns(resultados.equity_curve)]
          /\ salida' = Sal("ejecutar", "", Len(posiciones))
    /\ devuelto' = Devuelve("tick", TRUE, SinTick)
    /\ pasadas' = pasadas + 1
    /\ primera_pasada' = IF pasadas = 0 THEN TicksEntregados(simulador)
                         ELSE primera_pasada
    /\ fase' = "finalizado"
    /\ UNCHANGED <<riesgo, np_importado, pasos, resultado, simulador,
                   datos_multi_tf, tick_count, ultima_actualizacion_analisis,
                   corridas, cargas>>

\* ========================================================= risk gate
\* A RiskManager used on its own, as the tests do.  Risk is a fraction in
\* units of 0.001 %; the ATR of a signal is in price points.  The engine's
\* own gate is not followed: its answers are the inputs of ejecutar_tick.
SenalEntrada(direccion, fuerza, confirmaciones, atr) ==
    [simbolo |-> "EURUSD", direccion |-> direccion,
     precio_entrada |-> PrecioDefecto, fuerza |-> fuerza,
     confirmaciones |-> confirmaciones, atr |-> atr]

\* Signals handed to the gate: a strong BUY with a 10-pip ATR, a strong
\* SELL with a 200-pip ATR, and a BUY that is too weak.
SenalesDeEntrada ==
    { SenalEntrada("COMPRA", 80, 2, 100),
      SenalEntrada("VENTA", 80, 2, 2000),
      SenalEntrada("COMPRA", 40, 2, 100) }

SinSenal == SenalEntrada("", None, None, None)

\* RiskManager(config) constructed on day dia; tipo_sl and tipo_tp are
\* config['riesgo']['stop_loss']['tipo'] and ...['take_profit']['tipo'].
RiskManager(tipo_sl, tipo_tp, dia) ==
    [riesgo_acumulado_hoy |-> 0, operaciones_hoy |-> 0,
     ultimo_reinicio |-> dia, tipo_sl |-> tipo_sl, tipo_tp |-> tipo_tp]

\* How a call of the gate ended.
Llamada(op, senal, devuelve, excepcion, orden) ==
    [op |-> op, senal |-> senal, devuelve |-> devuelve,
     excepcion |-> excepcion, orden |-> orden]

\* The gate of the venue and engine specifications, which never call it.
GestorInicial ==
    /\ risk_manager = RiskManager("atr", "rr", 0)
    /\ hoy = 0
    /\ llamada = Llamada("init", SinSenal, FALSE, "", SinOrden)
    /\ devueltas = 0
    /\ preparadas = 0

\* _verificar_reinicio_diario.
VerificarReinicioDiario(rm, dia) ==
    IF dia # rm.ultimo_reinicio
    THEN [rm EXCEPT !.riesgo_acumulado_hoy = 0, !.operaciones_hoy = 0,
                    !.ultimo_reinicio = dia]
    ELSE rm

LimiteOperaciones_pasado(rm) == rm.operaciones_hoy > max_operaciones_diarias

\* "if self.operaciones_hoy >= self.max_operaciones_diarias".
LimiteOperaciones(rm) == rm.operaciones_hoy >= max_operaciones_diarias

\* "if self.riesgo_acumulado_hoy >= self.riesgo_maximo_diario".
LimiteRiesgo(rm) == rm.riesgo_acumulado_hoy >= riesgo_maximo_diario

\* What validar_senal returns once the daily reset has been looked at.
ValidarSenal(rm, senal) ==
    /\ ~LimiteOperaciones(rm)
    /\ ~LimiteRiesgo(rm)
    /\ senal.fuerza >= FuerzaMinima
    /\ senal.confirmaciones >= ConfirmacionesMinimas

validar_senal(senal) ==
    LET rm == VerificarReinicioDiario(risk_manager, hoy) IN
    /\ risk_manager' = rm
    /\ llamada' = Llamada("validar_senal", senal, ValidarSenal(rm, senal),
                          "", SinOrden)
    /\ UNCHANGED <<venue, np_importado, pasos, colocadas, resultado, ticks,
                   motor, hoy, devueltas, preparadas>>

\* _calcular_stop_loss: None for a type the method does not know.
CalcularStopLoss(rm, senal) ==
    LET distancia == IF rm.tipo_sl = "atr"
                     THEN (senal.atr * MultiplicadorAtrPorDiez) \div 10
                     ELSE PuntosFijoStop
    IN IF rm.tipo_sl \notin {"atr", "fijo"} THEN None
       ELSE IF senal.direccion = "COMPRA"
            THEN senal.precio_entrada - distancia
            ELSE senal.precio_entrada + distancia

\* _calcular_take_profit.
CalcularTakeProfit(rm, senal, stop_loss) ==
    LET distancia ==
            IF rm.tipo_tp = "rr"
            THEN Abs(senal.precio_entrada - stop_loss)
                    * ratio_riesgo_recompensa
            ELSE PuntosFijoObjetivo
    IN IF stop_loss = None \/ rm.tipo_tp \notin {"rr", "fijo"} THEN None
       ELSE IF senal.direccion = "COMPRA"
            THEN senal.precio_entrada + distancia
            ELSE senal.precio_entrada - distancia

\* _calcular_volumen: the money at risk over the stop distance, at least
\* the minimum lot, rounded to 0.01 lot; the minimum lot when the distance
\* is 0 (ZeroDivisionError, caught).
CalcularVolumen(rm, senal) ==
    LET stop_loss == CalcularStopLoss(rm, senal)
        riesgo_dinero == (capital_inicial * porcentaje_por_operacion) \div 100
        distancia == IF stop_loss = None THEN PuntosFijoStop
                     ELSE Abs(senal.precio_entrada - stop_loss)
    IN IF distancia = 0 THEN VolumenMinimo
       ELSE LET volumen == Max(VolumenMinimo,
                               riesgo_dinero \div (10 * distancia))
            IN ((volumen + 5) \div 10) * 10

\* distancia / precio_entrada.
RiesgoOperacion(precio_entrada, stop_loss) ==
    (Abs(precio_entrada - stop_loss) * 100000) \div precio_entrada

\* _actualizar_riesgo_acumulado.
ActualizarRiesgoAcumulado(rm, senal, stop_loss) ==
    IF stop_loss = None THEN rm
    ELSE [rm EXCEPT !.riesgo_acumulado_hoy =
                        @ + RiesgoOperacion(senal.precio_entrada, stop_loss),
                    !.operaciones_hoy = @ + 1]

\* preparar_orden: the Orden constructor may refuse the volume; the
\* counters are updated; then the log line formats stop_loss and
\* take_profit with ":.5f", a TypeError when one of them is None.  Every
\* exception leaves as ErrorRiesgo.
preparar_orden(senal) ==
    LET stop_loss == CalcularStopLoss(risk_manager, senal)
        take_profit == CalcularTakeProfit(risk_manager, senal, stop_loss)
        orden == MkOrden(senal.direccion, CalcularVolumen(risk_manager, senal),
                         senal.precio_entrada, stop_loss, take_profit,
                         "market")
        falla == PostInitFalla(orden) \/ stop_loss = None
                    \/ take_profit = None
        tras_validar == /\ llamada.op = "validar_senal"
                        /\ llamada.devuelve
                        /\ llamada.senal = senal
    IN
    /\ risk_manager.operaciones_hoy < MaxPreparaciones
    /\ risk_manager' =
          IF PostInitFalla(orden) THEN risk_manager
          ELSE ActualizarRiesgoAcumulado(risk_manager, senal, stop_loss)
    /\ llamada' = IF falla
                  THEN Llamada("preparar_orden", senal, FALSE, "ErrorRiesgo",
                               SinOrden)
                  ELSE Llamada("preparar_orden", senal, TRUE, "", orden)
    /\ devueltas' = IF falla THEN devueltas ELSE devueltas + 1
    /\ preparadas' = IF ~falla /\ tras_validar THEN preparadas + 1
                     ELSE preparadas
    /\ UNCHANGED <<venue, np_importado, pasos, colocadas, resultado, ticks,
                   motor, hoy>>

\* Midnight: datetime.now().date() moves on.
pasar_dia ==
    /\ hoy < MaxDias
    /\ hoy' = hoy + 1
    /\ UNCHANGED <<venue, np_importado, pasos, colocadas, resultado, ticks,
                   motor, risk_manager, llamada, devueltas, preparadas>>

\* ------------------------------------------------------- specification
Init ==
    /\ posiciones = <<>>
    /\ ordenes_pendientes = <<>>
    /\ historial = <<>>
    /\ balance = capital_inicial
    /\ equity = balance
    /\ np_importado \in BOOLEAN
    /\ pasos = 0
    /\ colocadas = <<>>
    /\ resultado = Res("init", TRUE, None, None, None, "", SinOrden)
    /\ simulador = SinSimulador
    /\ devuelto = Devuelve("init", FALSE, SinTick)
    /\ pasadas = 0
    /\ primera_pasada = <<>>
    /\ fase = "inactivo"
    /\ datos_multi_tf = <<>>
    /\ tick_count = 0
    /\ ultima_actualizacion_analisis = None
    /\ resultados = ResultadosIniciales
    /\ corridas = 0
    /\ cargas = 0
    /\ salida = Sal("init", "", 0)
    /\ GestorInicial

Next ==
    \/ \E o \in OrdenesPosibles : CrearOrden(o)
    \/ \E o \in OrdenesPosibles : colocar_orden(o)
    \/ \E t \in TicketsPosibles(historial), c \in CambiosPosibles :
          modificar_orden(t, c)
    \/ \E t \in TicketsPosibles(historial) : cerrar_orden(t)
    \/ cerrar
    \/ obtener_posiciones_abiertas
    \/ obtener_estado_cuenta

Spec == Init /\ [][Next]_vars

\* The tick simulator on its own, constructed over one of the candle sets.
InitTicks ==
    /\ posiciones = <<>>
    /\ ordenes_pendientes = <<>>
    /\ historial = <<>>
    /\ balance = capital_inicial
    /\ equity = balance
    /\ np_importado = TRUE
    /\ pasos = 0
    /\ colocadas = <<>>
    /\ resultado = Res("init", TRUE, None, None, None, "", SinOrden)
    /\ \E velas \in VelasPosibles : simulador = TickSimulator(velas)
    /\ devuelto = Devuelve("init", FALSE, SinTick)
    /\ pasadas = 0
    /\ primera_pasada = <<>>
    /\ fase = "inactivo"
    /\ datos_multi_tf = <<>>
    /\ tick_count = 0
    /\ ultima_actualizacion_analisis = None
    /\ resultados = ResultadosIniciales
    /\ corridas = 0
    /\ cargas = 0
    /\ salida = Sal("init", "", 0)
    /\ GestorInicial

NextTicks ==
    \/ obtener_siguiente_tick
    \/ reset

SpecTicks == InitTicks /\ [][NextTicks]_vars

\* The backtest engine after __init__, with its venue and no simulator.
InitRun == Init

NextRun ==
    \/ \E datos_velas \in DatosPosibles : cargar_datos(datos_velas)
    \/ ejecutar_inicio
    \/ ejecutar_tick
    \/ ejecutar_fin

SpecRun == InitRun /\ [][NextRun]_vars

\* _calcular_metricas applied to a ledger and an equity curve.
InitMetricas ==
    /\ posiciones = <<>>
    /\ ordenes_pendientes = <<>>
    /\ historial = <<>>
    /\ balance = capital_inicial
    /\ equity = balance
    /\ np_importado = TRUE
    /\ pasos = 0
    /\ colocadas = <<>>
    /\ resultado = Res("init", TRUE, None, None, None, "", SinOrden)
    /\ simulador = SinSimulador
    /\ devuelto = Devuelve("init", FALSE, SinTick)
    /\ pasadas = 0
    /\ primera_pasada = <<>>
    /\ fase = "inactivo"
    /\ datos_multi_tf = <<>>
    /\ tick_count = 0
    /\ ultima_actualizacion_analisis = None
    /\ corridas = 0
    /\ cargas = 0
    /\ salida = Sal("init", "", 0)
    /\ GestorInicial
    /\ \E ops \in LibrosPosibles, curva \in CurvasPosibles :
          /\ CurvaDeLibro(ops, curva)
          /\ resultados = [ResultadosIniciales EXCEPT
                               !.operaciones = ops, !.equity_curve = curva]

NextMetricas == calcular_metricas

SpecMetricas == InitMetricas /\ [][NextMetricas]_vars

\* A RiskManager under validar_senal and preparar_orden calls.
InitRiesgo ==
    /\ posiciones = <<>>
    /\ ordenes_pendientes = <<>>
    /\ historial = <<>>
    /\ balance = capital_inicial
    /\ equity = balance
    /\ np_importado = TRUE
    /\ pasos = 0
    /\ colocadas = <<>>
    /\ resultado = Res("init", TRUE, None, None, None, "", SinOrden)
    /\ simulador = SinSimulador
    /\ devuelto = Devuelve("init", FALSE, SinTick)
    /\ pasadas = 0
    /\ primera_pasada = <<>>
    /\ fase = "inactivo"
    /\ datos_multi_tf = <<>>
    /\ tick_count = 0
    /\ ultima_actualizacion_analisis = None
    /\ resultados = ResultadosIniciales
    /\ corridas = 0
    /\ cargas = 0
    /\ salida = Sal("init", "", 0)
    /\ hoy = 0
    /\ \E tipo_sl \in {"atr", "fijo", "estructura"}, tipo_tp \in {"rr", "otro"} :
          risk_manager = RiskManager(tipo_sl, tipo_tp, 0)
    /\ llamada = Llamada("init", SinSenal, FALSE, "", SinOrden)
    /\ devueltas = 0
    /\ preparadas = 0

NextRiesgo ==
    \/ \E senal \in SenalesDeEntrada : validar_senal(senal)
    \/ \E senal \in SenalesDeEntrada : preparar_orden(senal)
    \/ pasar_dia

SpecRiesgo == InitRiesgo /\ [][NextRiesgo]_vars

\* The driver's tick handler on a venue that holds positions with levels.
InitNiveles == Init

NextNiveles ==
    \/ \E o \in OrdenesConNiveles : colocar_orden(o)
    \/ \E tick \in TicksPosibles : actualizar_precios_posiciones(tick)

SpecNiveles == InitNiveles /\ [][NextNiveles]_vars

\* The engine on long candle series.
InitCadencia == Init

NextCadencia ==
    \/ \E datos_velas \in DatosLargos : cargar_datos(datos_velas)
    \/ ejecutar_inicio
    \/ ejecutar_tick
    \/ ejecutar_fin

SpecCadencia == InitCadencia /\ [][NextCadencia]_vars

\* ================================================================ claims
Tickets(s) == {s[i].ticket : i \in 1..Len(s)}

Ultimo(s) == s[Len(s)]

MediaSpread == spread \div 2

\* C1: every successful place_order returns a ticket that no earlier
\* place_order returned.
C1_TicketsUnicos ==
    \A i, j \in 1..Len(colocadas) :
        i # j => colocadas[i].ticket # colocadas[j].ticket

\* C2: a successful close_order closes a BUY at current_price - spread/2
\* and a SELL at current_price + spread/2, records realized_pnl =
\* (close - open) * volume * 100000 - commission for BUY (mirrored for
\* SELL), and adds exactly that amount to balance.
C2_CierreRealizaBeneficio ==
    [][ (resultado'.op = "cerrar" /\ resultado'.exito) =>
          LET p  == posiciones[IndiceDe(posiciones, resultado'.ticket)]
              pc == IF p.tipo = "COMPRA" THEN p.precio_actual - MediaSpread
                                         ELSE p.precio_actual + MediaSpread
              pnl == IF p.tipo = "COMPRA"
                     THEN (pc - p.precio_apertura) * p.volumen * TamanoContrato
                          - p.comision
                     ELSE (p.precio_apertura - pc) * p.volumen * TamanoContrato
                          - p.comision
          IN /\ Ultimo(historial').precio_cierre = pc
             /\ Ultimo(historial').beneficio = pnl
             /\ resultado'.precio = pc
             /\ balance' = balance + pnl ]_vars

\* The scenario of the claim: BUY 0.1 lot filled at 1.10010, commission
\* 0.25, closed at current_price 1.10500: realizes 47.75, balance 10047.50.
C2_Testigo ==
    /\ resultado.op = "cerrar" /\ resultado.exito
    /\ Len(historial) = 1
    /\ historial[1].tipo = "COMPRA" /\ historial[1].volumen = 100
    /\ historial[1].precio_apertura = 110010
    /\ historial[1].precio_actual = 110500
    /\ historial[1].precio_cierre = 110490
    /\ historial[1].comision = 2500
    /\ historial[1].beneficio = 477500
    /\ balance = 100475000

\* C3: a market order with a requested price fills at requested_price +
\* spread/2 for BUY and requested_price - spread/2 for SELL; the position
\* it opens has open_price and current_price equal to that fill price.
C3_PrecioDeEjecucion ==
    (/\ resultado.op = "colocar" /\ resultado.exito
     /\ resultado.orden.tipo_orden = "market"
     /\ resultado.orden.precio # None)
    => LET fill == IF resultado.orden.tipo = "COMPRA"
                   THEN resultado.orden.precio + MediaSpread
                   ELSE resultado.orden.precio - MediaSpread
       IN /\ resultado.precio = fill
          /\ Ultimo(posiciones).precio_apertura = fill
          /\ Ultimo(posiciones).precio_actual = fill

\* BUY at 1.10000 with spread 0.0002 has just been filled at 1.10010.
C3_Testigo ==
    /\ resultado.op = "colocar" /\ resultado.exito
    /\ resultado.orden.tipo_orden = "market"
    /\ resultado.orden.tipo = "COMPRA"
    /\ resultado.orden.precio = 110000
    /\ resultado.precio = 110010
    /\ Ultimo(posiciones).precio_apertura = 110010

\* C4: a successful market place_order lowers balance by exactly volume *
\* commission_per_lot, appends exactly one open position carrying the
\* returned ticket, and leaves ledger, pending orders and the other open
\* positions unchanged.
C4_ColocarMercado ==
    [][ (/\ resultado'.op = "colocar" /\ resultado'.exito
         /\ resultado'.orden.tipo_orden = "market")
        => /\ balance' = balance - resultado'.orden.volumen * comision_por_lote
           /\ Len(posiciones') = Len(posiciones) + 1
           /\ SubSeq(posiciones', 1, Len(posiciones)) = posiciones
           /\ Ultimo(posiciones').ticket = resultado'.ticket
           /\ historial' = historial
           /\ ordenes_pendientes' = ordenes_pendientes ]_vars

\* A market order has just been placed while another position was open.
C4_Testigo ==
    /\ resultado.op = "colocar" /\ resultado.exito
    /\ resultado.orden.tipo_orden = "market"
    /\ Len(posiciones) >= 2
    /\ balance < capital_inicial

C7_SinPosicionesEquityEsBalance ==
    posiciones = <<>> => equity = balance

\* The open set has just been emptied by a close, at a price that had
\* moved away from the open price.
C7_Testigo ==
    /\ resultado.op \in {"cerrar", "cerrar_todo"} /\ resultado.exito
    /\ posiciones = <<>>
    /\ historial # <<>>
    /\ historial[1].precio_actual # historial[1].precio_apertura
    /\ equity = balance

RECURSIVE ComisionesDeMercado(_)
ComisionesDeMercado(s) ==
    IF s = <<>> THEN 0
    ELSE (IF s[1].tipo_orden = "market"
          THEN s[1].volumen * comision_por_lote ELSE 0)
         + ComisionesDeMercado(Tail(s))

\* C8: balance = initial_capital - commissions of the market orders placed
\* + realized_pnl of the ledger, in every state; modify_order, pending
\* placement, the read operations and failed calls leave balance
\* unchanged.
C8_BalanceSoloPorColocarYCerrar ==
    /\ [](balance = capital_inicial - ComisionesDeMercado(colocadas)
                    + SumaBeneficio(historial))
    /\ [][ (\/ resultado'.op \in {"modificar", "posiciones",
                                  "estado_cuenta", "Orden"}
            \/ ~resultado'.exito
            \/ (resultado'.op = "colocar"
                /\ resultado'.orden.tipo_orden # "market"))
           => balance' = balance ]_vars

\* A pending order has just been queued after a position was closed with
\* a non-zero result.
C8_Testigo ==
    /\ resultado.op = "colocar" /\ resultado.exito
    /\ resultado.orden.tipo_orden # "market"
    /\ historial # <<>>
    /\ balance # capital_inicial

\* C9: an order with volume below the minimum lot is rejected with a
\* validation error and changes nothing in the venue; no position, pending
\* order or ledger entry ever has a volume below the minimum.
C9_VolumenMinimo ==
    /\ [](\A i \in 1..Len(posiciones) : posiciones[i].volumen >= VolumenMinimo)
    /\ [](\A i \in 1..Len(ordenes_pendientes) :
              ordenes_pendientes[i].volumen >= VolumenMinimo)
    /\ [](\A i \in 1..Len(historial) : historial[i].volumen >= VolumenMinimo)
    /\ [][ (/\ resultado'.op \in {"Orden", "colocar"}
            /\ resultado'.orden.volumen < VolumenMinimo)
           => /\ ~resultado'.exito
              /\ resultado'.excepcion = "ValueError"
              /\ UNCHANGED venue ]_vars

\* An order of 0.001 lot has just been refused while the venue held a
\* position.
C9_Testigo ==
    /\ resultado.op = "Orden"
    /\ resultado.orden.volumen = 1
    /\ resultado.excepcion = "ValueError"
    /\ posiciones # <<>>

\* C10: close_order succeeds only on the ticket of an open position and
\* modify_order only on the ticket of an open position or pending order;
\* otherwise they return a failed result, raise nothing and change nothing.
C10_TicketDesconocido ==
    [][ /\ resultado'.op = "cerrar" =>
              /\ resultado'.excepcion = ""
              /\ resultado'.exito => resultado'.ticket \in Tickets(posiciones)
              /\ ~resultado'.exito => UNCHANGED venue
        /\ resultado'.op = "modificar" =>
              /\ resultado'.excepcion = ""
              /\ resultado'.exito =>
                    resultado'.ticket \in Tickets(posiciones)
                                          \cup Tickets(ordenes_pendientes)
              /\ ~resultado'.exito => UNCHANGED venue ]_vars

\* A close or modify has just failed while positions and pending orders
\* with other tickets existed.
C10_Testigo ==
    /\ resultado.op \in {"cerrar", "modificar"}
    /\ ~resultado.exito
    /\ resultado.excepcion = ""
    /\ posiciones # <<>>
    /\ ordenes_pendientes # <<>>

\* C11: modify_order(ticket, changes) on an existing ticket sets the given
\* fields on the position or pending order created with that ticket and
\* changes no other position or pending order, nor balance or ledger.
C11_ModificarSoloElTicket ==
    [][ (resultado'.op = "modificar" /\ resultado'.exito) =>
          LET t == resultado'.ticket
              c == resultado'.cambios
              Esperado(s) ==
                  [i \in 1..Len(s) |->
                      IF s[i].ticket = t THEN AplicarCambios(s[i], c)
                                         ELSE s[i]]
          IN /\ posiciones' = Esperado(posiciones)
             /\ ordenes_pendientes' = Esperado(ordenes_pendientes)
             /\ balance' = balance
             /\ historial' = historial ]_vars

\* C12: place_order with a limit or stop order returns success, appends
\* exactly one pending order, opens no position, charges no commission and
\* leaves balance, equity and ledger unchanged.
C12_ColocarPendiente ==
    [][ (/\ resultado'.op \in {"Orden", "colocar"}
         /\ ~PostInitFalla(resultado'.orden)
         /\ resultado'.orden.tipo_orden # "market")
        => /\ resultado'.op = "colocar" /\ resultado'.exito
           /\ Len(ordenes_pendientes') = Len(ordenes_pendientes) + 1
           /\ SubSeq(ordenes_pendientes', 1, Len(ordenes_pendientes))
                 = ordenes_pendientes
           /\ Ultimo(ordenes_pendientes').ticket = resultado'.ticket
           /\ Ultimo(ordenes_pendientes').estado = "pendiente"
           /\ posiciones' = posiciones
           /\ balance' = balance
           /\ equity' = equity
           /\ historial' = historial ]_vars

\* A limit order has just been queued while a position was open whose
\* floating P&L made equity differ from balance.
C12_Testigo ==
    /\ resultado.op = "colocar" /\ resultado.exito
    /\ resultado.orden.tipo_orden = "limit"
    /\ ordenes_pendientes # <<>>
    /\ posiciones # <<>>
    /\ equity # balance

\* C14: the trade ledger is append-only: no operation removes, reorders or
\* changes an entry, and its length never decreases.
C14_HistorialSoloCrece ==
    [][ /\ Len(historial') >= Len(historial)
        /\ SubSeq(historial', 1, Len(historial)) = historial ]_vars

\* Two trades are in the ledger and a position is still open: the second
\* close came after the first entry was written.
C14_Testigo ==
    /\ Len(historial) >= 2
    /\ resultado.op \in {"cerrar", "cerrar_todo"}

\* The candle a tick was generated from.
VelaDe(t) == simulador.datos_velas[t.vela]

EnRango(t) == VelaDe(t).bajo <= t.bid /\ t.bid <= VelaDe(t).alto

TodosEntregados(s) ==
    \A k \in 1..Len(s.datos_velas) :
        Entregados(s, k) = TicksPorVela(s.datos_velas, k)

\* C15: every tick produced for a candle has candle.low <= bid <=
\* candle.high, for every candle and every tick, also after reset and
\* replay.
C15_BidEnRango ==
    /\ \A i \in 1..Len(simulador.ticks_actuales) :
          EnRango(simulador.ticks_actuales[i])
    /\ \A i \in 1..Len(simulador.ticks_generados) :
          EnRango(simulador.ticks_generados[i])
    /\ (devuelto.op = "tick" /\ ~devuelto.nulo) => EnRango(devuelto.tick)

\* In a replay after a complete pass, one returned tick was clipped to its
\* candle's high and another to its candle's low.
C15_Testigo ==
    /\ pasadas >= 1
    /\ devuelto.op = "tick" /\ ~devuelto.nulo
    /\ \E i, j \in 1..Len(simulador.ticks_generados) :
          LET a == simulador.ticks_generados[i]
              b == simulador.ticks_generados[j]
          IN /\ a.bid = VelaDe(a).alto
             /\ b.bid = VelaDe(b).bajo
             /\ VelaDe(a).bajo < VelaDe(a).alto

\* C16: next_tick returns, candle by candle in order, exactly the candle's
\* tick count, which lies between 5 and 100; it returns None exactly when
\* every candle's ticks have been returned, keeps returning None without a
\* reset, and returns None at the first call on an empty candle set.
C16_FlujoFinito ==
    /\ [](/\ \A k \in 1..Len(simulador.datos_velas) :
              /\ TicksPorVela(simulador.datos_velas, k) >= 5
              /\ TicksPorVela(simulador.datos_velas, k) <= 100
              /\ Entregados(simulador, k)
                    <= TicksPorVela(simulador.datos_velas, k)
              /\ Entregados(simulador, k) > 0 =>
                    \A j \in 1..(k - 1) :
                        Entregados(simulador, j)
                           = TicksPorVela(simulador.datos_velas, j)
          /\ (devuelto.op = "tick" /\ ~devuelto.nulo) =>
                /\ devuelto.tick
                      = simulador.ticks_generados[
                            Len(simulador.ticks_generados)]
                /\ \A i \in 1..Len(simulador.ticks_generados) :
                      simulador.ticks_generados[i].vela <= devuelto.tick.vela)
    /\ [][ devuelto'.op = "tick" =>
              (devuelto'.nulo <=> TodosEntregados(simulador)) ]_vars

\* None has just been returned for a set of three candles whose ticks were
\* all returned.
C16_Testigo ==
    /\ devuelto.op = "tick" /\ devuelto.nulo
    /\ Len(simulador.datos_velas) = 3
    /\ TodosEntregados(simulador)
    /\ Len(simulador.ticks_generados) >= 15

\* C17: after reset() at any point, a full drain yields the same number of
\* ticks per candle (and so the same total) as the first full drain.
C17_LeyDeReinicio ==
    (devuelto.op = "tick" /\ devuelto.nulo /\ pasadas >= 1)
        => TicksEntregados(simulador) = primera_pasada

\* A second pass over a set of several candles has ended.
C17_Testigo ==
    /\ pasadas = 2
    /\ devuelto.op = "tick" /\ devuelto.nulo
    /\ Len(primera_pasada) >= 2
    /\ \A k \in 1..Len(primera_pasada) : primera_pasada[k] >= 5

\* C18: for candles sorted ascending with distinct timestamps, every tick
\* returned has a timestamp strictly greater than the tick returned before
\* it, within a candle and across candles.
C18_OrdenEstricto ==
    \A i \in 1..(Len(simulador.ticks_generados) - 1) :
        simulador.ticks_generados[i].timestamp
            < simulador.ticks_generados[i + 1].timestamp

\* C13: close_all closes every open position: after the finalization of a
\* run the venue has no open position, each position that was open has
\* exactly one trade in the ledger, closed from its last current_price, and
\* the run's trade list equals the venue's ledger.
C13_CierreTotal ==
    /\ [](fase = "finalizado" =>
             /\ posiciones = <<>>
             /\ resultados.operaciones = historial)
    /\ [][ (fase = "corriendo" /\ fase' = "finalizado") =>
             /\ posiciones' = <<>>
             /\ Len(historial') = Len(historial) + Len(posiciones)
             /\ SubSeq(historial', 1, Len(historial)) = historial
             /\ \A i \in 1..Len(posiciones) :
                   LET p == posiciones[i]
                       op == historial'[Len(historial) + i]
                   IN /\ op.ticket = p.ticket
                      /\ op.tipo = p.tipo
                      /\ op.volumen = p.volumen
                      /\ op.precio_apertura = p.precio_apertura
                      /\ op.precio_cierre =
                            IF p.tipo = "COMPRA"
                            THEN p.precio_actual - MediaSpread
                            ELSE p.precio_actual + MediaSpread
             /\ resultados'.operaciones = historial' ]_vars

\* A run has returned whose finalization closed two open positions.
C13_Testigo ==
    /\ fase = "finalizado"
    /\ salida.op = "ejecutar" /\ salida.excepcion = ""
    /\ salida.cerradas >= 2
    /\ Len(historial) >= 2

\* The load of candle map d has no candle of the entry timeframe in the
\* date range.
CargaSinVelas(d) ==
    \/ tf_entrada \notin DOMAIN d
    \/ \A i \in 1..Len(d[tf_entrada]) :
          \/ d[tf_entrada][i].timestamp < fecha_inicio
          \/ d[tf_entrada][i].timestamp > fecha_fin

\* C19: load_data fails with an error when the entry timeframe is absent
\* from the candle map or the date-filtered entry series is empty, and then
\* constructs no tick simulator, so no tick of a failed load is ever
\* processed by run().
C19_CargaFallida ==
    /\ [](/\ ~simulador.construido =>
               /\ fase \in {"inactivo", "error"}
               /\ tick_count = 0
               /\ simulador.ticks_generados = <<>>
          /\ simulador.construido =>
               /\ simulador.datos_velas # <<>>
               /\ \A i \in 1..Len(simulador.datos_velas) :
                     /\ simulador.datos_velas[i].timestamp >= fecha_inicio
                     /\ simulador.datos_velas[i].timestamp <= fecha_fin)
    /\ [][ (cargas' = cargas + 1 /\ CargaSinVelas(salida'.datos)) =>
              /\ salida'.excepcion = "ValueError"
              /\ simulador' = simulador
              /\ fase' = fase ]_vars

\* Every load so far has failed and ejecutar was called: it raised without
\* processing a tick.
C19_Testigo ==
    /\ cargas = 2
    /\ ~simulador.construido
    /\ salida.op = "ejecutar" /\ salida.excepcion = "AttributeError"
    /\ tick_count = 0

\* C20: a run that ends with an empty trade ledger returns metrics with
\* every field present and 0: total trades, win_rate, total_pnl,
\* max_drawdown, sharpe_ratio, expectancy, total_return_pct and
\* annualized_return_pct.
C20_MetricasCompletas ==
    (fase = "finalizado" /\ resultados.operaciones = <<>>) =>
        /\ {"total_operaciones", "win_rate", "beneficio_total",
            "drawdown_maximo", "sharpe_ratio", "expectancy",
            "retorno_total", "retorno_anualizado"}
              \subseteq DOMAIN resultados.metricas
        /\ resultados.metricas.total_operaciones = 0
        /\ resultados.metricas.win_rate = 0
        /\ resultados.metricas.beneficio_total = 0
        /\ resultados.metricas.drawdown_maximo = 0
        /\ resultados.metricas.sharpe_ratio = 0
        /\ resultados.metricas.expectancy = 0
        /\ resultados.metricas.retorno_total = 0
        /\ resultados.metricas.retorno_anualizado = 0

\* C30: a pending (limit or stop) order is never filled and never removed:
\* every step keeps each queued order in its place with its ticket and its
\* pending state, so the queue only grows; a position appears only through
\* a market order, every new ledger entry is a position that was closed,
\* and close_order on a ticket leaves the queue as it was.
C30_PendientesPermanecen ==
    [][ /\ Len(ordenes_pendientes') >= Len(ordenes_pendientes)
        /\ \A i \in 1..Len(ordenes_pendientes) :
              /\ ordenes_pendientes'[i].ticket = ordenes_pendientes[i].ticket
              /\ ordenes_pendientes'[i].tipo_orden
                    = ordenes_pendientes[i].tipo_orden
              /\ ordenes_pendientes'[i].estado = "pendiente"
        /\ Len(posiciones') > Len(posiciones)
              => /\ resultado'.op = "colocar"
                 /\ resultado'.orden.tipo_orden = "market"
                 /\ ordenes_pendientes' = ordenes_pendientes
        /\ Len(historial') - Len(historial)
              = Max(Len(posiciones) - Len(posiciones'), 0)
        /\ resultado'.op \in {"cerrar", "cerrar_todo"}
              => ordenes_pendientes' = ordenes_pendientes ]_vars

\* close_order has just been refused (no position has the ticket) while an
\* order is queued and a trade is in the ledger: the order is still queued.
C30_Testigo ==
    /\ resultado.op = "cerrar" /\ ~resultado.exito
    /\ ordenes_pendientes # <<>>
    /\ pasos >= 2
    /\ historial # <<>>

\* C23: backtest runs are isolated: whenever ejecutar starts on the engine
\* the venue's balance equals the initial capital, its open positions,
\* pending orders and ledger are empty and the equity curve is empty, so
\* nothing an earlier run produced is visible.
C23_CorridasAisladas ==
    (fase = "corriendo" /\ tick_count = 0)
        => /\ balance = capital_inicial
           /\ equity = capital_inicial
           /\ posiciones = <<>>
           /\ ordenes_pendientes = <<>>
           /\ historial = <<>>
           /\ resultados.equity_curve = <<>>
           /\ resultados.operaciones = <<>>

\* C26: a failure while handling one signal never aborts the run: when
\* preparar_orden or colocar_orden fails for a signal the driver goes on
\* with the remaining signals and ticks, so ejecutar never ends with the
\* risk gate's exception.
C26_FalloNoAborta ==
    ~(salida.op = "ejecutar" /\ salida.excepcion = "ErrorRiesgo")

\* C27: strategy analysis is throttled by simulated time: within a run a
\* tick is analysed only if no analysis has happened yet or its timestamp
\* exceeds that of the last analysis by strictly more than five minutes,
\* so two consecutive analyses are more than five minutes apart, and
\* orders are submitted on analysis ticks only.
C27_AnalisisEspaciado ==
    [][ LET ultima == ultima_actualizacion_analisis
            tick == devuelto'.tick
            toca == \/ ultima = None
                    \/ tick.timestamp - ultima > IntervaloAnalisis
        IN /\ colocadas' # colocadas
                => /\ fase = "corriendo" /\ tick_count' = tick_count + 1
                   /\ toca
           /\ (ultima_actualizacion_analisis' # ultima
               /\ ultima_actualizacion_analisis' # None)
                => /\ fase = "corriendo" /\ tick_count' = tick_count + 1
                   /\ toca
                   /\ ultima_actualizacion_analisis' = tick.timestamp
                   /\ ultima # None
                        => ultima_actualizacion_analisis' - ultima
                              > IntervaloAnalisis ]_vars

\* The second analysis of a run has taken place, more than five minutes
\* after the first, and an order was submitted in the run.
C27_Testigo ==
    /\ fase = "corriendo"
    /\ ultima_actualizacion_analisis # None
    /\ ultima_actualizacion_analisis > IntervaloAnalisis
    /\ tick_count > 1
    /\ Len(colocadas) >= 2

\* The tick price has reached the stop-loss or the take-profit of p.
NivelAlcanzado(p, tick) ==
    /\ p.stop_loss # None /\ p.take_profit # None
    /\ IF p.tipo = "COMPRA"
       THEN tick.last <= p.stop_loss \/ tick.last >= p.take_profit
       ELSE tick.last >= p.stop_loss \/ tick.last <= p.take_profit

\* Position p and entry q are the same trade.
MismaOperacion(p, q) ==
    /\ p.ticket = q.ticket /\ p.tipo = q.tipo
    /\ p.precio_apertura = q.precio_apertura
    /\ p.stop_loss = q.stop_loss /\ p.take_profit = q.take_profit

C28_CadenciaEquity ==
    /\ [](corridas = 1 /\ fase \in {"corriendo", "finalizado"}
            => Len(resultados.equity_curve) = tick_count \div CadenciaEquity)
    /\ [][ LET curva == resultados.equity_curve
                nueva == resultados'.equity_curve
            IN /\ Len(nueva) >= Len(curva)
               /\ SubSeq(nueva, 1, Len(curva)) = curva
               /\ IF fase = "corriendo" /\ fase' = "corriendo"
                     /\ tick_count' = tick_count + 1
                     /\ tick_count' % CadenciaEquity = 0
                  THEN /\ Len(nueva) = Len(curva) + 1
                       /\ Ultimo(nueva).timestamp = devuelto'.tick.timestamp
                       /\ Ultimo(nueva).equity = equity'
                       /\ Ultimo(nueva).balance = balance'
                  ELSE nueva = curva ]_vars

\* The second run on the engine has taken its hundredth tick with a
\* position open: the curve holds the point of the first run and the new
\* one, whose equity differs from its balance.
C28_Testigo ==
    /\ corridas = 2 /\ fase = "corriendo"
    /\ tick_count = CadenciaEquity
    /\ Len(resultados.equity_curve) = 2
    /\ Ultimo(resultados.equity_curve).equity
          # Ultimo(resultados.equity_curve).balance

Beneficios(ops) == [i \in 1..Len(ops) |-> ops[i].beneficio]

\* The sum of the results of the entries whose place is in S.
RECURSIVE SumaEn(_, _)
SumaEn(ops, S) ==
    IF S = {} THEN 0
    ELSE LET i == CHOOSE i \in S : TRUE
         IN ops[i].beneficio + SumaEn(ops, S \ {i})

\* C21: expectancy computed from the ledger equals win_prob * avg_win -
\* (1 - win_prob) * avg_loss_magnitude, with winners the trades of result
\* > 0, losers those of result < 0 and win_prob = winners / total, to within
\* the rounding of the arithmetic, and it is 0 whenever there is no winner
\* or no loser; the results +10, -5, +20 give win_rate 66.66, total result
\* 25 and expectancy 8.3333.
C21_Expectancy ==
    salida.op = "_calcular_metricas" =>
        LET ops == resultados.operaciones
            m == resultados.metricas
            n == Len(ops)
            G == {i \in 1..n : ops[i].beneficio > 0}
            P == {i \in 1..n : ops[i].beneficio < 0}
            ng == Cardinality(G)
            nperd == Cardinality(P)
            exacto == SumaEn(ops, G) * nperd + (n - ng) * SumaEn(ops, P)
        IN /\ (G = {} \/ P = {}) => m.expectancy = 0
           /\ (G # {} /\ P # {})
                => /\ m.expectancy * n * nperd - exacto < 2 * n * nperd
                   /\ exacto - m.expectancy * n * nperd < 2 * n * nperd
           /\ Beneficios(ops) = <<100000, 0 - 50000, 200000>>
                => /\ m.win_rate = 6666
                   /\ m.beneficio_total = 250000
                   /\ m.expectancy = 83333

\* The metrics of the ledger +10, -5, +20 have been computed.
C21_Testigo ==
    /\ salida.op = "_calcular_metricas"
    /\ Beneficios(resultados.operaciones) = <<100000, 0 - 50000, 200000>>
    /\ resultados.metricas.expectancy = 83333

\* The highest equity among the first i points of the curve.
MaximoCorrido(curva, i) ==
    CHOOSE x \in {curva[k].equity : k \in 1..i} :
        \A k \in 1..i : curva[k].equity <= x

\* The fall at point i from the highest equity so far.
Caida(curva, i) == MaximoCorrido(curva, i) - curva[i].equity

\* One hundredth of a percent of the highest equity so far.
Centesima(curva, i) == MaximoCorrido(curva, i) \div 10000

\* C22: max_drawdown computed from the equity curve is never negative; it
\* is 0 when the curve never falls and when it has no point or one point;
\* otherwise it is the largest (running_max - equity) / running_max over
\* the curve, in hundredths of a percent.
C22_DrawdownMaximo ==
    salida.op = "_calcular_metricas" =>
        LET curva == resultados.equity_curve
            d == resultados.metricas.drawdown_maximo
        IN /\ d >= 0
           /\ Len(curva) <= 1 => d = 0
           /\ (\A i \in 2..Len(curva) :
                   curva[i].equity >= curva[i - 1].equity) => d = 0
           /\ Len(curva) >= 1
                => /\ \E i \in 1..Len(curva) :
                         /\ d * Centesima(curva, i) <= Caida(curva, i)
                         /\ Caida(curva, i) < (d + 1) * Centesima(curva, i)
                   /\ \A j \in 1..Len(curva) :
                         Caida(curva, j) < (d + 1) * Centesima(curva, j)

\* The metrics of a curve that rises above its start and then falls below
\* it have been computed: the fall is measured from the peak.
C22_Testigo ==
    /\ salida.op = "_calcular_metricas"
    /\ Len(resultados.equity_curve) = 3
    /\ resultados.equity_curve[2].equity > resultados.equity_curve[1].equity
    /\ resultados.equity_curve[3].equity < resultados.equity_curve[1].equity
    /\ resultados.metricas.drawdown_maximo = 198

====
